---- MODULE Spec2Model ----
(***************************************************************************)
(* CostWatch analytics engine: anomaly detection and cost forecasting of   *)
(* MLPredictor (services/analytics-engine/app/services/ml_predictor.py).   *)
(*                                                                         *)
(* Representation.  Costs are integers counted in units of 10 dollars, so  *)
(* 10 is $100 and 500 is $5000.  Every comparison the code makes on floats *)
(* is made here on the exact rational value, cross-multiplied so that only *)
(* integers are compared.  Rounded outputs are integers counted in cents.  *)
(* A calendar date is a day ordinal; the strings the code handles          *)
(* ('%Y-%m-%d') are modelled by their month and day digits.                *)
(***************************************************************************)
EXTENDS Integers, Sequences, FiniteSets, TLC

VARIABLES
    cost_data,      \* the payload handed to the engine: NoData or [analysis |-> [daily_costs |-> ...]]
    now,            \* datetime.now(), as a day ordinal
    pc,             \* "idle", or the name of the call that has returned
    sensitivity,    \* argument of the last detect_anomalies call
    time_horizon,   \* request.time_horizon of the last predict call
    iso_scores,     \* score_samples of the forest fitted in the last call, by cost value
    invoked,        \* names of the detection methods the last call ran
    candidates,     \* the list anomalies of the last call, before the merge
    merged,         \* what _deduplicate_anomalies returned in the last call
    result,         \* the value the last call returned
    exact_mean,     \* whether np.mean of the payload's costs is free of rounding error
    failed,         \* the sub-computations that raised inside the last call
    self,           \* the attributes of the shared MLPredictor and AnalyticsService
    calls,          \* the calls concurrent callers have in flight, by caller
    daily_costs,    \* the argument of CostCalculator._analyze_cost_trend
    cost_trend,     \* what _analyze_cost_trend returned, "none" before the call
    clock,          \* time.time() of the gateway, in ticks
    limits,         \* requests_per_minute and requests_per_hour of the RateLimiter
    minute_requests,\* RateLimiter.minute_requests: the timestamps kept, by client
    hour_requests,  \* RateLimiter.hour_requests: the timestamps kept, by client
    granted,        \* the times at which is_allowed returned True, by client
    last,           \* what is_allowed returned to the client's last request, and when
    previous        \* what is_allowed returned to the client's request before that

calculatorVars == <<daily_costs, cost_trend>>

limiterVars == <<clock, limits, minute_requests, hour_requests, granted, last, previous>>

engineVars == <<cost_data, now, pc, sensitivity, time_horizon, iso_scores, invoked, candidates,
               merged, result, exact_mean, failed, self, calls>>

vars == <<engineVars, calculatorVars, limiterVars>>

(***************************************************************************)
(* Bounds of the model.                                                    *)
(***************************************************************************)
MaxLen == 17          \* longest generated series
MaxHorizon == 5       \* largest time_horizon requested
MaxTicks == 1         \* days the clock may advance
FirstDay == 40        \* day ordinal of the clock at start
SeriesStart == 25     \* day ordinal of the first sample of a series

(***************************************************************************)
(* Arithmetic helpers.                                                     *)
(***************************************************************************)
Abs(x) == IF x < 0 THEN -x ELSE x

Min(a, b) == IF a < b THEN a ELSE b

Max(a, b) == IF a < b THEN b ELSE a

RECURSIVE SumFromTo(_, _, _)
\* sum(s[lo..hi]), 1-based, empty when lo > hi
SumFromTo(s, lo, hi) == IF lo > hi THEN 0 ELSE s[lo] + SumFromTo(s, lo + 1, hi)

Sum(s) == SumFromTo(s, 1, Len(s))

SumSq(s) == SumFromTo([i \in 1..Len(s) |-> s[i] * s[i]], 1, Len(s))

\* n^2 * variance of the series (np.std is the population deviation)
ScaledVar(s) == Len(s) * SumSq(s) - Sum(s) * Sum(s)

Values(s) == {s[i] : i \in 1..Len(s)}

(***************************************************************************)
(* Dates.  strftime('%Y-%m-%d') yields fixed-width, zero-padded fields,    *)
(* most significant first; the model keeps the digits of month and day of  *)
(* a calendar of 30-day months (the year is common to all dates).          *)
(***************************************************************************)
DaysPerMonth == 30

Strftime(d) ==
    LET m == ((d - 1) \div DaysPerMonth) + 1
        dd == ((d - 1) % DaysPerMonth) + 1
    IN  <<m \div 10, m % 10, dd \div 10, dd % 10>>

\* the day ordinal a date string denotes
Strptime(str) == ((str[1] * 10) + str[2] - 1) * DaysPerMonth + (str[3] * 10) + str[4]

RECURSIVE StrLessFrom(_, _, _)
StrLessFrom(a, b, i) ==
    IF i > Len(a) THEN i <= Len(b)
    ELSE IF i > Len(b) THEN FALSE
    ELSE IF a[i] # b[i] THEN a[i] < b[i]
    ELSE StrLessFrom(a, b, i + 1)

\* Python's str.__lt__: character by character
StrLess(a, b) == StrLessFrom(a, b, 1)

(***************************************************************************)
(* Severity ranks (_get_severity_score).                                   *)
(***************************************************************************)
\* mutant: critical is missing from the map
get_severity_score_no_critical(severity) ==
    CASE severity = "high" -> 3
      [] severity = "medium" -> 2
      [] severity = "low" -> 1
      [] severity = "info" -> 0
      [] OTHER -> 0

get_severity_score(severity) ==
    CASE severity = "critical" -> 4
      [] severity = "high" -> 3
      [] severity = "medium" -> 2
      [] severity = "low" -> 1
      [] severity = "info" -> 0
      [] OTHER -> 0

Indices(n) == [i \in 1..n |-> i]

(***************************************************************************)
(* Statistical method.  z = |cost - mean| / std with mean = S/n and        *)
(* std^2 = (n*Q - S^2)/n^2, so z > t  iff  (n*cost - S)^2 > t^2 * (n*Q -   *)
(* S^2).  Thresholds are kept doubled (3.5 -> 7) to stay in the integers.  *)
(***************************************************************************)
\* threshold_map of the z-score method, doubled
z_threshold_map(sens) ==
    CASE sens = "low" -> 6
      [] sens = "medium" -> 5
      [] sens = "high" -> 4
      [] OTHER -> 5

\* z_score > t2/2 for sample c of a series with n samples, sum S, scaled variance V
ZScoreExceeds(c, n, S, V, t2) == 4 * (n * c - S) * (n * c - S) > t2 * t2 * V

ZCritical2 == 7

ZHigh2 == 6

z_severity(c, n, S, V) ==
    IF ZScoreExceeds(c, n, S, V, ZCritical2) THEN "critical"
    ELSE IF ZScoreExceeds(c, n, S, V, ZHigh2) THEN "high"
    ELSE "medium"

\* the loop over z_scores, given the sum S and the scaled variance V of the series
ZScoreAnomalies(cost_values, dates, S, V, t2) ==
    LET n == Len(cost_values)
        flagged == SelectSeq(Indices(n),
                             LAMBDA i : ZScoreExceeds(cost_values[i], n, S, V, t2))
    IN  [k \in 1..Len(flagged) |->
            [type |-> "statistical_anomaly",
             date |-> dates[flagged[k]],
             actual_cost |-> cost_values[flagged[k]],
             severity |-> z_severity(cost_values[flagged[k]], n, S, V),
             method |-> "z_score"]]

detect_statistical_anomalies(cost_values, dates, sens) ==
    IF ScaledVar(cost_values) = 0 THEN <<>>
    ELSE ZScoreAnomalies(cost_values, dates, Sum(cost_values), ScaledVar(cost_values),
                         z_threshold_map(sens))

(***************************************************************************)
(* Moving-average method.  pandas rolling(window, center=True).mean() puts *)
(* at label i the mean of the window ending at i + (window-1)//2 and is    *)
(* NaN where the window is not full.  With W the window sum,               *)
(*   deviation = |c - W/w| / (W/w + 0.001) = E*|c*w - W| / (E*W + w)       *)
(* for E = 1/0.001 expressed in cost units.                                *)
(***************************************************************************)
EpsDen == 10000         \* 0.001 dollars is 1/10000 of a cost unit

MaxWindow == 7

MinTrendLen == 5

\* mutant: low and high are exchanged
ma_threshold_map_swapped(sens) ==
    CASE sens = "low" -> 2
      [] sens = "medium" -> 3
      [] sens = "high" -> 5
      [] OTHER -> 3

\* threshold_map of the moving-average method, in tenths
ma_threshold_map(sens) ==
    CASE sens = "low" -> 5
      [] sens = "medium" -> 3
      [] sens = "high" -> 2
      [] OTHER -> 3

MaHigh10 == 8

\* mutant: the window never holds more than two days
window_size_pair(n) == Min(2, n \div 2)

window_size(n) == Min(MaxWindow, n \div 2)

WindowLo(i, w) == i + ((w - 1) \div 2) - w + 1

WindowHi(i, w) == i + ((w - 1) \div 2)

\* pd.notna(moving_avg.iloc[i])
HasWindow(i, n, w) == WindowLo(i, w) >= 1 /\ WindowHi(i, w) <= n

\* deviation > t10/10
DeviationExceeds(c, W, w, t10) == 10 * EpsDen * Abs(c * w - W) > t10 * (EpsDen * W + w)

detect_trend_anomalies(cost_values, dates, sens) ==
    LET n == Len(cost_values)
        w == window_size(n)
        WSum(i) == SumFromTo(cost_values, WindowLo(i, w), WindowHi(i, w))
        flagged == SelectSeq(Indices(n),
                     LAMBDA i : /\ HasWindow(i, n, w)
                                /\ DeviationExceeds(cost_values[i], WSum(i), w,
                                                    ma_threshold_map(sens)))
    IN  IF n < MinTrendLen THEN <<>>
        ELSE [k \in 1..Len(flagged) |->
                [type |-> "trend_anomaly",
                 date |-> dates[flagged[k]],
                 actual_cost |-> cost_values[flagged[k]],
                 severity |-> IF DeviationExceeds(cost_values[flagged[k]], WSum(flagged[k]),
                                                  w, MaHigh10)
                              THEN "high" ELSE "medium",
                 method |-> "moving_average"]]

(***************************************************************************)
(* Density method.  IsolationForest(contamination, random_state=42) gives  *)
(* every sample a score_samples value that depends on its cost only; the   *)
(* seed is fixed, so the forest is the same at every contamination.  The   *)
(* scores are an input of the model (iso, by cost value, in tenths).  The  *)
(* library sets offset_ = np.percentile(scores, 100 * contamination)       *)
(* (linear interpolation), decision_function = score - offset_, and labels *)
(* a sample -1 when its decision_function is negative.                     *)
(***************************************************************************)
ScoreSet == {-9, -3}

\* contamination_map, in percent
contamination_map(sens) ==
    CASE sens = "low" -> 5
      [] sens = "medium" -> 10
      [] sens = "high" -> 15
      [] OTHER -> 10

\* the k-th smallest (k = 0 is the minimum) of the scores of the samples
KthSmallest(scores, k) ==
    LET AtMost(v) == Cardinality({i \in 1..Len(scores) : scores[i] <= v})
        enough == {v \in Values(scores) : AtMost(v) >= k + 1}
    IN  CHOOSE v \in enough : \A u \in enough : v <= u

\* 100 * np.percentile(scores, pct)
Percentile100(scores, pct) ==
    LET n == Len(scores)
        lo == (pct * (n - 1)) \div 100
        frac == (pct * (n - 1)) % 100
        a == KthSmallest(scores, lo)
        b == IF lo + 1 <= n - 1 THEN KthSmallest(scores, lo + 1) ELSE a
    IN  100 * a + frac * (b - a)

IsoHigh100 == -500      \* score < -0.5, in hundredths of a tenth

\* mutant: a score below -0.5 is reported as critical
IsoAnomaliesCritical(cost_values, dates, scores, offset100) ==
    LET Decision100(i) == 100 * scores[i] - offset100
        flagged == SelectSeq(Indices(Len(cost_values)), LAMBDA i : Decision100(i) < 0)
    IN  [k \in 1..Len(flagged) |->
            [type |-> "ml_anomaly",
             date |-> dates[flagged[k]],
             actual_cost |-> cost_values[flagged[k]],
             severity |-> IF Decision100(flagged[k]) < IsoHigh100
                          THEN "critical" ELSE "medium",
             method |-> "isolation_forest"]]

\* the loop over labels and scores, given 100 * offset_ of the fitted forest
IsoAnomalies(cost_values, dates, scores, offset100) ==
    LET \* 100 * decision_function of sample i
        Decision100(i) == 100 * scores[i] - offset100
        flagged == SelectSeq(Indices(Len(cost_values)), LAMBDA i : Decision100(i) < 0)
    IN  [k \in 1..Len(flagged) |->
            [type |-> "ml_anomaly",
             date |-> dates[flagged[k]],
             actual_cost |-> cost_values[flagged[k]],
             severity |-> IF Decision100(flagged[k]) < IsoHigh100
                          THEN "high" ELSE "medium",
             method |-> "isolation_forest"]]

\* iso_forest.fit_predict and decision_function on the cost values
IsoFit(cost_values, dates, scores, pct) ==
    IsoAnomalies(cost_values, dates, scores, Percentile100(scores, pct))

detect_ml_anomalies(cost_values, dates, sens, iso) ==
    IsoFit(cost_values, dates, [i \in 1..Len(cost_values) |-> iso[cost_values[i]]] \o <<>>,
           contamination_map(sens))

(***************************************************************************)
(* Merge (_deduplicate_anomalies): one record per date, a later candidate  *)
(* replaces the kept one only when its rank is strictly higher; then       *)
(* sorted(key = (rank, date), reverse = True).                             *)
(***************************************************************************)
\* mutant: the first candidate of a date is kept whatever comes later
KeepFirst(date_anomalies, a) ==
    IF \E j \in 1..Len(date_anomalies) : date_anomalies[j].date = a.date
    THEN date_anomalies
    ELSE Append(date_anomalies, a)

\* mutant: a later candidate of the same rank replaces the kept record
KeepLatestOfTies(date_anomalies, a) ==
    LET at == {j \in 1..Len(date_anomalies) : date_anomalies[j].date = a.date}
        j == CHOOSE x \in at : TRUE
    IN  IF a.date = <<>> THEN date_anomalies
        ELSE IF at = {} THEN Append(date_anomalies, a)
        ELSE IF get_severity_score(a.severity)
                  >= get_severity_score(date_anomalies[j].severity)
        THEN [date_anomalies EXCEPT ![j] = a]
        ELSE date_anomalies

\* one pass of the loop: the dict (kept in insertion order) after candidate a
KeepHighest(date_anomalies, a) ==
    LET at == {j \in 1..Len(date_anomalies) : date_anomalies[j].date = a.date}
        j == CHOOSE x \in at : TRUE
    IN  IF a.date = <<>> THEN date_anomalies
        ELSE IF at = {} THEN Append(date_anomalies, a)
        ELSE IF get_severity_score(a.severity)
                  > get_severity_score(date_anomalies[j].severity)
        THEN [date_anomalies EXCEPT ![j] = a]
        ELSE date_anomalies

RECURSIVE DateAnomalies(_, _)
\* the dict date_anomalies after the loop has consumed the first k candidates
DateAnomalies(anomalies, k) ==
    IF k = 0 THEN <<>>
    ELSE KeepHighest(DateAnomalies(anomalies, k - 1), anomalies[k])

\* mutant: the sort key is the rank alone
KeyGreaterRankOnly(a, b) ==
    get_severity_score(a.severity) > get_severity_score(b.severity)

\* (rank, date) of a is greater than that of b
KeyGreater(a, b) ==
    \/ get_severity_score(a.severity) > get_severity_score(b.severity)
    \/ /\ get_severity_score(a.severity) = get_severity_score(b.severity)
       /\ StrLess(b.date, a.date)

InsertAt(sorted, a, pos) ==
    SubSeq(sorted, 1, pos) \o <<a>> \o SubSeq(sorted, pos + 1, Len(sorted))

\* a goes after the records whose key is not smaller (the sort is stable)
InsertDesc(sorted, a) ==
    InsertAt(sorted, a, Cardinality({j \in 1..Len(sorted) : ~KeyGreater(a, sorted[j])}))

RECURSIVE SortedDescUpTo(_, _)
SortedDescUpTo(values, k) ==
    IF k = 0 THEN <<>> ELSE InsertDesc(SortedDescUpTo(values, k - 1), values[k])

\* sorted(values, key, reverse=True)
SortedDesc(values) == SortedDescUpTo(values, Len(values))

deduplicate_anomalies(anomalies) == SortedDesc(DateAnomalies(anomalies, Len(anomalies)))

(***************************************************************************)
(* detect_anomalies.                                                       *)
(***************************************************************************)
None == [none |-> TRUE]

\* cost_data and cost_data.get('analysis')
HasAnalysis(cd) == "analysis" \in DOMAIN cd

\* [day['cost'] for day in daily_costs] raises KeyError on a day without a cost
ExtractionRaises(cd) ==
    /\ HasAnalysis(cd)
    /\ \E i \in 1..Len(cd.analysis.daily_costs) :
         {"date", "cost"} \ DOMAIN cd.analysis.daily_costs[i] # {}

FallbackDays == 30

MinAnomalyLen == 7

TopAnomalies == 10

\* cost_values as the operations extract them from the payload
CostValues(cd) ==
    IF HasAnalysis(cd)
    THEN [i \in 1..Len(cd.analysis.daily_costs) |-> cd.analysis.daily_costs[i].cost]
    ELSE [i \in 1..FallbackDays |-> 0]

\* dates as detect_anomalies extracts them; the fallback counts back from today
Dates(cd, today) ==
    IF HasAnalysis(cd)
    THEN [i \in 1..Len(cd.analysis.daily_costs) |-> cd.analysis.daily_costs[i].date]
    ELSE [i \in 1..FallbackDays |-> Strftime(today - (FallbackDays - i))]

\* mutant: the comparison is < 0
AllNegative(cost_values) == \A i \in 1..Len(cost_values) : cost_values[i] < 0

AllZero(cost_values) == \A i \in 1..Len(cost_values) : cost_values[i] = 0

Head10(s) == SubSeq(s, 1, Min(TopAnomalies, Len(s)))

InfoRecord(type, cost_values, dates, sens) ==
    [type |-> type, severity |-> "info",
     analysis_period |-> <<dates[1], dates[Len(dates)]>>,
     data_points |-> Len(cost_values), sensitivity |-> sens]

\* mutant: the minimum of the moving-average method is used
InsufficientDataTrend(cost_values) == Len(cost_values) < MinTrendLen

\* mutant: any non-empty series is accepted
InsufficientDataEmpty(cost_values) == Len(cost_values) < 1

\* len(cost_values) < 7
InsufficientData(cost_values) == Len(cost_values) < MinAnomalyLen

\* the names the three methods give their records
Methods == {"z_score", "isolation_forest", "moving_average"}

\* mutant: an exception of one method empties the whole list
CandidatesAllOrNothing(cost_values, dates, sens, iso, failing) ==
    IF failing # {} THEN <<>>
    ELSE detect_statistical_anomalies(cost_values, dates, sens)
         \o (IF Cardinality(Values(cost_values)) > 1
             THEN detect_ml_anomalies(cost_values, dates, sens, iso) ELSE <<>>)
         \o detect_trend_anomalies(cost_values, dates, sens)

\* the list anomalies once the three methods have run; a method in `failing` raises
\* inside its try block and its handler returns []
Candidates(cost_values, dates, sens, iso, failing) ==
    (IF "z_score" \in failing THEN <<>>
     ELSE detect_statistical_anomalies(cost_values, dates, sens))
    \o (IF Cardinality(Values(cost_values)) > 1 /\ "isolation_forest" \notin failing
        THEN detect_ml_anomalies(cost_values, dates, sens, iso) ELSE <<>>)
    \o (IF "moving_average" \in failing THEN <<>>
        ELSE detect_trend_anomalies(cost_values, dates, sens))

\* mutant: the empty merged list is returned as it is
TopOnly(cost_values, dates, sens, anomalies, unique_anomalies) ==
    [result |-> Head10(unique_anomalies),
     invoked |-> {"z_score", "moving_average"}
                   \cup (IF Cardinality(Values(cost_values)) > 1
                         THEN {"isolation_forest"} ELSE {}),
     candidates |-> anomalies,
     merged |-> unique_anomalies]

\* the end of detect_anomalies, given the candidates and the merged list
TopOrInfo(cost_values, dates, sens, anomalies, unique_anomalies) ==
    [result |-> IF unique_anomalies = <<>>
                THEN <<InfoRecord("no_significant_anomalies", cost_values, dates, sens)>>
                ELSE Head10(unique_anomalies),
     invoked |-> {"z_score", "moving_average"}
                   \cup (IF Cardinality(Values(cost_values)) > 1
                         THEN {"isolation_forest"} ELSE {}),
     candidates |-> anomalies,
     merged |-> unique_anomalies]

MergeAndReport(cost_values, dates, sens, anomalies) ==
    TopOrInfo(cost_values, dates, sens, anomalies, deduplicate_anomalies(anomalies))

\* detect_anomalies once the series is extracted
DetectOn(cost_values, dates, sens, iso, failing) ==
    IF InsufficientData(cost_values)
    THEN [result |-> <<[type |-> "insufficient_data", severity |-> "info"]>>,
          invoked |-> {}, candidates |-> <<>>, merged |-> <<>>]
    ELSE IF AllZero(cost_values)
    THEN [result |-> <<InfoRecord("no_anomalies", cost_values, dates, sens)>>,
          invoked |-> {}, candidates |-> <<>>, merged |-> <<>>]
    ELSE MergeAndReport(cost_values, dates, sens,
                        Candidates(cost_values, dates, sens, iso, failing))

\* [result: the returned list, invoked: the methods run, candidates: the list anomalies
\* before the merge, merged: the deduplicated list]; a KeyError of the extraction is
\* caught by the outer handler
detect_anomalies(cd, sens, iso, today, failing) ==
    IF ExtractionRaises(cd)
    THEN [result |-> <<[type |-> "error", severity |-> "error"]>>,
          invoked |-> {}, candidates |-> <<>>, merged |-> <<>>]
    ELSE DetectOn(CostValues(cd), Dates(cd, today), sens, iso, failing)

(***************************************************************************)
(* Forecasting.  The least-squares line over x = 0..n-1 is, with           *)
(* Sy = sum(y), Sxy = sum(x*y) and M = 2*Sxy - (n-1)*Sy,                   *)
(*   slope = 6*M / (n*(n^2-1)),                                            *)
(*   line(t) = (Sy*(n^2-1) + 3*M*(2*t - n + 1)) / (n*(n^2-1)).             *)
(* Rounded outputs: predicted_cost and total_predicted_cost in cents,      *)
(* confidence in hundredths, mean_absolute_error in thousandths of a       *)
(* dollar.  round() is round-half-to-even on the exact value.              *)
(***************************************************************************)
RECURSIVE LongDiv(_, _, _, _)
\* <<floor(10^digits * (q + r/den)), the remainder>>, one decimal digit at a time
LongDiv(q, r, den, digits) ==
    IF digits = 0 THEN <<q, r>>
    ELSE LongDiv(10 * q + ((10 * r) \div den), (10 * r) % den, den, digits - 1)

HalfEven(qr, den) ==
    IF 2 * qr[2] > den \/ (2 * qr[2] = den /\ qr[1] % 2 = 1) THEN qr[1] + 1 ELSE qr[1]

\* round(num / den, digits) * 10^digits, for num >= 0 and den > 0
RoundNonNeg(num, den, digits) == HalfEven(LongDiv(num \div den, num % den, den, digits), den)

\* round(num / den, digits) * 10^digits, for den > 0: round(-x) = -round(x)
Round(num, den, digits) ==
    IF num < 0 THEN 0 - RoundNonNeg(0 - num, den, digits) ELSE RoundNonNeg(num, den, digits)

CentsDigits == 3        \* a cost unit is 10^3 cents

MilliDigits == 4        \* a cost unit is 10^4 thousandths of a dollar

MinForecastLen == 3

Sxy(y) == SumFromTo([i \in 1..Len(y) |-> (i - 1) * y[i]], 1, Len(y))

SlopeNum(y) == 2 * Sxy(y) - (Len(y) - 1) * Sum(y)

LineDen(n) == n * (n * n - 1)

\* numerator of line(t) over LineDen(n), given Sy and M
LineNum(n, Sy, M, t) == Sy * (n * n - 1) + 3 * M * (2 * t - n + 1)

\* mutant: the thresholds are 10 dollars a day
SlopeTrendCoarse(n, M) ==
    IF 6 * M > LineDen(n) THEN "increasing"
    ELSE IF 6 * M < -LineDen(n) THEN "decreasing"
    ELSE "stable"

\* slope > 0.01 dollars a day, slope < -0.01, or neither
SlopeTrend(n, M) ==
    IF 6000 * M > LineDen(n) THEN "increasing"
    ELSE IF 6000 * M < -LineDen(n) THEN "decreasing"
    ELSE "stable"

RECURSIVE FracLeq(_, _, _, _)
\* a/b <= c/d for a, c >= 0 and b, d > 0, by continued fractions (no product is formed)
FracLeq(a, b, c, d) ==
    IF a \div b # c \div d THEN a \div b < c \div d
    ELSE IF a % b = 0 THEN TRUE
    ELSE IF c % d = 0 THEN FALSE
    ELSE FracLeq(d, c % d, b, a % b)

ConfFloor == 50

ConfCeil == 95

\* round(max(0.5, min(0.95, 1 - mae / (mean + 0.001))), 2) in hundredths, for
\* mae = maeNum / maeDen and mean = Sy / n: the rounded value reaches c when
\* mae / (mean + 0.001) <= (201 - 2c) / 200, that is
\* maeNum / maeDen <= (201 - 2c) * (EpsDen * Sy + n) / (200 * EpsDen * n)
Confidence100(maeNum, maeDen, Sy, n) ==
    ConfFloor + Cardinality({c \in (ConfFloor + 1)..ConfCeil :
        /\ FracLeq(maeNum, maeDen, (201 - 2 * c) * (EpsDen * Sy + n), 200 * EpsDen * n)
        /\ \/ c % 2 = 0
           \/ ~FracLeq((201 - 2 * c) * (EpsDen * Sy + n), 200 * EpsDen * n, maeNum, maeDen)})

\* mutant: days are numbered from 0
generate_simple_forecast_day0(cost_values, horizon, today) ==
    [forecast_type |-> "simple_average",
     predictions |-> [i \in 1..horizon |->
        [day |-> i - 1,
         predicted_cost |-> IF cost_values = <<>> THEN 0
                            ELSE Round(Sum(cost_values), Len(cost_values), CentsDigits),
         confidence |-> 60,
         date |-> Strftime(today + i)]],
     total_predicted_cost |-> IF cost_values = <<>> THEN 0
                              ELSE Round(Sum(cost_values) * horizon, Len(cost_values),
                                         CentsDigits),
     confidence |-> 60,
     model_type |-> "simple_average",
     trend |-> "stable"]

generate_simple_forecast(cost_values, horizon, today) ==
    [forecast_type |-> "simple_average",
     predictions |-> [i \in 1..horizon |->
        [day |-> i,
         predicted_cost |-> IF cost_values = <<>> THEN 0
                            ELSE Round(Sum(cost_values), Len(cost_values), CentsDigits),
         confidence |-> 60,
         date |-> Strftime(today + i)]],
     total_predicted_cost |-> IF cost_values = <<>> THEN 0
                              ELSE Round(Sum(cost_values) * horizon, Len(cost_values),
                                         CentsDigits),
     confidence |-> 60,
     model_type |-> "simple_average",
     trend |-> "stable"]

generate_fallback_prediction(horizon) ==
    [forecast_type |-> "fallback",
     predictions |-> [i \in 1..horizon |-> [day |-> i, predicted_cost |-> 0, confidence |-> 50]],
     total_predicted_cost |-> 0,
     confidence |-> 50,
     model_type |-> "fallback",
     trend |-> "unknown"]

\* the linear-regression branch, given Sy, M, the clamped projections (numerators
\* over LineDen(n)) and the sum of the absolute in-sample residuals
LinearForecast(n, Sy, M, future, absResid, horizon, today) ==
    [forecast_type |-> "linear_regression",
     predictions |-> [i \in 1..horizon |->
        [day |-> i,
         predicted_cost |-> Round(future[i], LineDen(n), CentsDigits),
         confidence |-> Confidence100(absResid, n * LineDen(n), Sy, n),
         date |-> Strftime(today + i)]],
     total_predicted_cost |-> Round(SumFromTo(future, 1, horizon), LineDen(n), CentsDigits),
     confidence |-> Confidence100(absResid, n * LineDen(n), Sy, n),
     model_type |-> "linear_regression",
     trend |-> SlopeTrend(n, M),
     model_performance |->
        [mean_absolute_error |-> Round(absResid, n * LineDen(n), MilliDigits)]]

\* mutant: the future days start one day late, at index n + 1
FitAndProjectLate(y, n, Sy, M, horizon, today) ==
    LinearForecast(n, Sy, M,
        [i \in 1..horizon |-> Max(LineNum(n, Sy, M, n + i), 0)] \o <<>>,
        SumFromTo([i \in 1..n |-> Abs(y[i] * LineDen(n) - LineNum(n, Sy, M, i - 1))], 1, n),
        horizon, today)

\* model.fit, model.predict on the future days, np.maximum(., 0), and the residuals
FitAndProject(y, n, Sy, M, horizon, today) ==
    LinearForecast(n, Sy, M,
        [i \in 1..horizon |-> Max(LineNum(n, Sy, M, n + i - 1), 0)] \o <<>>,
        SumFromTo([i \in 1..n |-> Abs(y[i] * LineDen(n) - LineNum(n, Sy, M, i - 1))], 1, n),
        horizon, today)

\* model.predict raises ValueError on an array of 0 samples
PredictRaises(horizon) == horizon <= 0

\* mutant: the all-zero test comes before the length test
generate_cost_forecast_zero_first(cost_values, horizon, today) ==
    IF AllZero(cost_values)
    THEN [forecast_type |-> "zero_cost",
          predictions |-> [i \in 1..horizon |->
                              [day |-> i, predicted_cost |-> 0, confidence |-> 95]],
          total_predicted_cost |-> 0,
          confidence |-> 95,
          model_type |-> "constant_zero",
          trend |-> "stable"]
    ELSE generate_simple_forecast(cost_values, horizon, today)

generate_cost_forecast(cost_values, horizon, today) ==
    IF Len(cost_values) < MinForecastLen
    THEN generate_simple_forecast(cost_values, horizon, today)
    ELSE IF AllZero(cost_values)
    THEN [forecast_type |-> "zero_cost",
          predictions |-> [i \in 1..horizon |->
                              [day |-> i, predicted_cost |-> 0, confidence |-> 95]],
          total_predicted_cost |-> 0,
          confidence |-> 95,
          model_type |-> "constant_zero",
          trend |-> "stable"]
    ELSE IF PredictRaises(horizon)
    THEN generate_simple_forecast(cost_values, horizon, today)
    ELSE FitAndProject(cost_values, Len(cost_values), Sum(cost_values),
                       SlopeNum(cost_values), horizon, today)

\* predict, for requests of prediction_type 'cost_forecast'
predict(cd, horizon, today) ==
    IF ExtractionRaises(cd) THEN generate_fallback_prediction(horizon)
    ELSE generate_cost_forecast(CostValues(cd), horizon, today)

(***************************************************************************)
(* Trend analysis (AnalyticsService.analyze_trends).  strength and the     *)
(* percentages are counted in hundredths of a percent, slope in            *)
(* ten-thousandths of a dollar a day, the averages in cents.  np.std(y)    *)
(* == 0 is an equality of floats: on equal costs it holds when the mean    *)
(* is computed without rounding error (exact), and fails when the sum of   *)
(* the equal floats rounds, as it does for three days at 0.1.  The         *)
(* volatility record is left out: its standard deviation of ratios has     *)
(* no exact integer form within the integers used here.                    *)
(***************************************************************************)
MinTrendSamples == 2

HighConfidenceLen == 14

PercentDigits == 2

SlopeDigits == 4

WeekLen == 7

MinCompareLen == 4

TrendNames == {"overall_trend", "growth_rate", "period_comparison"}

StableTrend(confidence) ==
    [direction |-> "stable", strength |-> 0, confidence |-> confidence]

\* np.std(y) == 0
StdIsZero(cost_values, exact) == ScaledVar(cost_values) = 0 /\ exact

\* slope > 0.01, slope < -0.01, or neither, for the slope 6*M / (n*(n^2-1)) of np.polyfit
TrendDirection(n, M) ==
    IF 6000 * M > n * (n * n - 1) THEN "increasing"
    ELSE IF 6000 * M < 0 - n * (n * n - 1) THEN "decreasing"
    ELSE "stable"

\* mutant: fourteen samples are enough for confidence high
FittedTrendFrom14(n, Sy, M) ==
    [direction |-> TrendDirection(n, M),
     strength |-> IF Sy > 0 THEN Round(600 * Abs(M), (n * n - 1) * Sy, PercentDigits) ELSE 0,
     slope |-> Round(60 * M, n * (n * n - 1), SlopeDigits),
     confidence |-> IF n >= HighConfidenceLen THEN "high" ELSE "medium"]

\* the record built from the fitted slope, given Sy and M
FittedTrend(n, Sy, M) ==
    [direction |-> TrendDirection(n, M),
     strength |-> IF Sy > 0 THEN Round(600 * Abs(M), (n * n - 1) * Sy, PercentDigits) ELSE 0,
     slope |-> Round(60 * M, n * (n * n - 1), SlopeDigits),
     confidence |-> IF n > HighConfidenceLen THEN "high" ELSE "medium"]

\* mutant: the test on the number of samples is missing
calculate_overall_trend_no_minimum(cost_values, exact, failing) ==
    IF StdIsZero(cost_values, exact) THEN StableTrend("high")
    ELSE FittedTrend(Len(cost_values), Sum(cost_values), SlopeNum(cost_values))

calculate_overall_trend_from_data(cost_values, exact, failing) ==
    IF Len(cost_values) < MinTrendSamples THEN StableTrend("low")
    ELSE IF "overall_trend" \in failing THEN StableTrend("low")
    ELSE IF StdIsZero(cost_values, exact) THEN StableTrend("high")
    ELSE FittedTrend(Len(cost_values), Sum(cost_values), SlopeNum(cost_values))

NoGrowth == [weekly_growth_rate |-> 0, monthly_projected |-> 0]

\* given the sums of the first 7 and of the last 7 samples
GrowthRate(first_week, last_week) ==
    IF first_week > 0
    THEN [weekly_growth_rate |-> Round(100 * (last_week - first_week), first_week,
                                       PercentDigits),
          monthly_projected |-> Round(433 * (last_week - first_week), first_week,
                                      PercentDigits)]
    ELSE NoGrowth

calculate_growth_rate_from_data(cost_values, failing) ==
    IF Len(cost_values) < WeekLen THEN NoGrowth
    ELSE IF "growth_rate" \in failing THEN NoGrowth
    ELSE GrowthRate(SumFromTo(cost_values, 1, WeekLen),
                    SumFromTo(cost_values, Len(cost_values) - WeekLen + 1, Len(cost_values)))

\* mutant: with an earlier mean of 0 the later half alone decides the trend
PeriodComparisonFromZero(S1, n1, S2, n2) ==
    [first_half_average |-> Round(S1, n1, CentsDigits),
     second_half_average |-> Round(S2, n2, CentsDigits),
     change_percentage |-> IF S1 > 0
                           THEN Round(100 * (S2 * n1 - S1 * n2), S1 * n2, PercentDigits)
                           ELSE IF S2 > 0 THEN 10000 ELSE 0,
     trend |-> IF S1 > 0 /\ 100 * (S2 * n1 - S1 * n2) > 5 * S1 * n2 THEN "increasing"
               ELSE IF S1 > 0 /\ 100 * (S2 * n1 - S1 * n2) < 0 - 5 * S1 * n2 THEN "decreasing"
               ELSE IF S1 = 0 /\ S2 > 0 THEN "increasing"
               ELSE "stable"]

\* given the sums S1, S2 and the lengths n1, n2 of the two halves
PeriodComparison(S1, n1, S2, n2) ==
    [first_half_average |-> Round(S1, n1, CentsDigits),
     second_half_average |-> Round(S2, n2, CentsDigits),
     change_percentage |-> IF S1 > 0
                           THEN Round(100 * (S2 * n1 - S1 * n2), S1 * n2, PercentDigits)
                           ELSE 0,
     trend |-> IF S1 > 0 /\ 100 * (S2 * n1 - S1 * n2) > 5 * S1 * n2 THEN "increasing"
               ELSE IF S1 > 0 /\ 100 * (S2 * n1 - S1 * n2) < 0 - 5 * S1 * n2 THEN "decreasing"
               ELSE "stable"]

compare_periods_from_data(cost_values, failing) ==
    IF Len(cost_values) < MinCompareLen THEN [comparison |-> "insufficient_data"]
    ELSE IF "period_comparison" \in failing THEN [comparison |-> "error"]
    ELSE PeriodComparison(SumFromTo(cost_values, 1, Len(cost_values) \div 2),
                          Len(cost_values) \div 2,
                          SumFromTo(cost_values, (Len(cost_values) \div 2) + 1, Len(cost_values)),
                          Len(cost_values) - (Len(cost_values) \div 2))

generate_mock_trends ==
    [overall_trend |-> StableTrend("low"),
     cost_trend |-> "stable",
     total_cost |-> 0,
     daily_average |-> 0,
     growth_rate |-> NoGrowth,
     period_comparison |-> [comparison |-> "no_data"],
     data_source |-> "fallback"]

\* the payloads of the model carry no cost_trend, total_cost or daily_average, so the
\* defaults of analysis.get are reported
TrendsFromData(cost_values, exact, failing) ==
    [overall_trend |-> calculate_overall_trend_from_data(cost_values, exact, failing),
     cost_trend |-> "stable",
     total_cost |-> 0,
     daily_average |-> 0,
     growth_rate |-> calculate_growth_rate_from_data(cost_values, failing),
     period_comparison |-> compare_periods_from_data(cost_values, failing),
     data_points |-> Len(cost_values),
     data_source |-> "aws_cost_explorer"]

\* a KeyError of the extraction is caught by the handler of analyze_trends
analyze_trends(cd, exact, failing) ==
    IF ~HasAnalysis(cd) THEN generate_mock_trends
    ELSE IF ExtractionRaises(cd) THEN generate_mock_trends
    ELSE TrendsFromData(CostValues(cd), exact, failing)

(***************************************************************************)
(* Cost trend of the cost analyzer (CostCalculator._analyze_cost_trend).   *)
(* Its costs are counted in thousandths of a dollar.  With m = min(3, n),  *)
(* recent and older the sums of the last and of the first three samples,   *)
(*   change_ratio = (recent - older) / max(older, 0.01 * m),               *)
(* compared with 0.1 and -0.1.  The float ratio of $1.00 to $1.10 is       *)
(* 0.10000000000000009, so a change of exactly 10% may fall on either      *)
(* side of the threshold.                                                  *)
(***************************************************************************)
MinCostSamples == 2

TrendWindow == 3

FloorMills == 10        \* 0.01 dollars

ChangeDen == 10         \* 0.1 is 1 / ChangeDen

\* the sign of the rounding error of the float change_ratio
RoundingErrors == {-1, 0, 1}

\* mutant: the thresholds are 20%
ChangeTrend20(recent, older, m, err) ==
    IF ChangeDen * (recent - older) > 2 * Max(older, FloorMills * m) THEN "increasing"
    ELSE IF ChangeDen * (recent - older) < 0 - 2 * Max(older, FloorMills * m) THEN "decreasing"
    ELSE "stable"

\* the class of change_ratio, given the two sums and the divisor m of both averages;
\* a ratio of exactly 0.1 or -0.1 falls on the side its rounding error puts it
ChangeTrend(recent, older, m, err) ==
    IF \/ ChangeDen * (recent - older) > Max(older, FloorMills * m)
       \/ ChangeDen * (recent - older) = Max(older, FloorMills * m) /\ err > 0
    THEN "increasing"
    ELSE IF \/ ChangeDen * (recent - older) < 0 - Max(older, FloorMills * m)
            \/ ChangeDen * (recent - older) = 0 - Max(older, FloorMills * m) /\ err < 0
    THEN "decreasing"
    ELSE "stable"

analyze_cost_trend(costs, err) ==
    IF Len(costs) < MinCostSamples THEN "stable"
    ELSE ChangeTrend(SumFromTo(costs, Max(1, Len(costs) - TrendWindow + 1), Len(costs)),
                     SumFromTo(costs, 1, Min(TrendWindow, Len(costs))),
                     Min(TrendWindow, Len(costs)), err)

(***************************************************************************)
(* The rate limiter of the API gateway (RateLimiter).  Time is counted in  *)
(* ticks of half a second.                                                 *)
(***************************************************************************)
TicksPerSecond == 2

Clients == {"c1", "c2"}

DefaultLimits == [requests_per_minute |-> 60, requests_per_hour |-> 1000]

NoReturn == [at |-> -1, allowed |-> FALSE, retry_after |-> 0, limit |-> "none"]

MinuteWindow == 60

HourWindow == 3600

\* the timestamps of `requests` that are newer than the cutoff t - window
clean_old_requests(requests, t, window) ==
    SelectSeq(requests, LAMBDA ts : ts > t - window * TicksPerSecond)

\* mutant: the second added to the truncated wait is missing
RetryAfterNoSlack(window, t, oldest) ==
    (window * TicksPerSecond - (t - oldest)) \div TicksPerSecond

\* int(window - (now - oldest_request)) + 1, in seconds
RetryAfter(window, t, oldest) ==
    ((window * TicksPerSecond - (t - oldest)) \div TicksPerSecond) + 1

Granted(t) == [at |-> t, allowed |-> TRUE, retry_after |-> 0, limit |-> "none"]

Denied(t, retry_after, limit) ==
    [at |-> t, allowed |-> FALSE, retry_after |-> retry_after, limit |-> limit]

\* requests[0] of an empty list raises IndexError out of is_allowed
Raised(t) == [at |-> t, allowed |-> FALSE, retry_after |-> 0, limit |-> "raised"]

\* mutant: the hour limit is not looked at
DecideMinuteOnly(minutes, hours, lim, t) ==
    IF Len(minutes) >= lim.requests_per_minute
    THEN IF minutes = <<>> THEN Raised(t)
         ELSE Denied(t, RetryAfter(MinuteWindow, t, minutes[1]), "minute")
    ELSE Granted(t)

\* what is_allowed returns at time t, given the cleaned lists of the client
Decide(minutes, hours, lim, t) ==
    IF Len(minutes) >= lim.requests_per_minute
    THEN IF minutes = <<>> THEN Raised(t)
         ELSE Denied(t, RetryAfter(MinuteWindow, t, minutes[1]), "minute")
    ELSE IF Len(hours) >= lim.requests_per_hour
    THEN IF hours = <<>> THEN Raised(t)
         ELSE Denied(t, RetryAfter(HourWindow, t, hours[1]), "hour")
    ELSE Granted(t)

\* RateLimiter.__init__
LimiterConstructed(lim) ==
    /\ clock = 0
    /\ limits = lim
    /\ minute_requests = [c \in Clients |-> <<>>]
    /\ hour_requests = [c \in Clients |-> <<>>]
    /\ granted = [c \in Clients |-> <<>>]
    /\ last = [c \in Clients |-> NoReturn]
    /\ previous = [c \in Clients |-> NoReturn]

(***************************************************************************)
(* Inputs: the series a cost-data provider may hand over.                  *)
(***************************************************************************)
Sensitivities == {"low", "medium", "high"}

\* odd days cost p[1], even days cost p[2]
BasePairs == {<<0, 0>>, <<10, 10>>, <<10, 20>>, <<0, 10>>}

SpikeCosts == {500}

\* n days alternating between the costs of pair p, day pos (if any) costing spike
Series(n, p, pos, spike) ==
    [i \in 1..n |-> IF i = pos THEN spike ELSE IF i % 2 = 1 THEN p[1] ELSE p[2]]

GeneratedSeries ==
    {Series(n, p, pos, spike) : n \in 0..MaxLen, p \in BasePairs,
                                pos \in 0..MaxLen, spike \in SpikeCosts}

\* ten days at $100
ScenarioA == [i \in 1..10 |-> 10]

\* twenty-nine days at $100, then one day at $5000
ScenarioB == [i \in 1..30 |-> IF i = 30 THEN 500 ELSE 10]

\* $10, $500, $10
ScenarioE == <<1, 50, 1>>

\* cost[i] = a + b*i for i = 0..n-1
LinearSeries(n, a, b) == [i \in 1..n |-> a + b * (i - 1)]

LinearStarts == {0, 10}

LinearSteps == {1, 2}

\* $100 + $10 * i for i = 0..29
ScenarioD == LinearSeries(30, 10, 1)

RisingSeries ==
    {LinearSeries(n, a, b) : n \in 3..MaxLen, a \in LinearStarts, b \in LinearSteps}

\* nine days, a spike in the middle
SpikedSeries == <<10, 20, 10, 20, 500, 10, 20, 10, 20>>

AllSeries ==
    GeneratedSeries \cup {ScenarioA, ScenarioB, ScenarioE} \cup RisingSeries \cup {ScenarioD}

Payload(series) ==
    [analysis |-> [daily_costs |->
        [i \in 1..Len(series) |-> [date |-> Strftime(SeriesStart + i - 1),
                                   cost |-> series[i]]]]]

\* a payload one of whose days carries no cost
Malformed == [analysis |-> [daily_costs |-> <<[date |-> Strftime(SeriesStart)]>>]]

Payloads == {None, Malformed} \cup {Payload(series) : series \in AllSeries}

\* the spiked series sampled every other day
Gapped ==
    [analysis |-> [daily_costs |->
        [i \in 1..Len(SpikedSeries) |-> [date |-> Strftime(SeriesStart + 2 * (i - 1)),
                                         cost |-> SpikedSeries[i]]]]]

\* equal costs whose float sum may round: at least 3 samples of one non-zero cost
MeanMayRound(cd) ==
    /\ HasAnalysis(cd)
    /\ ~ExtractionRaises(cd)
    /\ Len(CostValues(cd)) >= 3
    /\ Cardinality(Values(CostValues(cd))) = 1
    /\ ~AllZero(CostValues(cd))

(***************************************************************************)
(* The state machine: one caller-owned payload, calls made on it.          *)
(***************************************************************************)
\* MLPredictor.__init__ and AnalyticsService.__init__
Constructed ==
    [models |-> <<>>, scalers |-> <<>>, prediction_cache |-> <<>>,
     supported_metrics |-> <<"total_cost", "daily_cost", "service_cost", "region_cost",
                             "cpu_utilization", "memory_utilization", "storage_usage">>]

\* no method assigns an attribute of self
AttributesAfterCall(attrs) == attrs

\* mutant: a call pops the last sample off the caller's list
PayloadWithoutLast(cd) ==
    IF HasAnalysis(cd) /\ cd.analysis.daily_costs # <<>>
    THEN [analysis |-> [daily_costs |->
            SubSeq(cd.analysis.daily_costs, 1, Len(cd.analysis.daily_costs) - 1)]]
    ELSE cd

\* the operations read daily_costs into new lists and assign nothing into the payload
PayloadAfterCall(cd) == cd

Callers == {"a", "b"}

Idle == [pc |-> "idle"]

NoCalls == [c \in Callers |-> Idle]

\* the analytics engine as constructed, holding one of the payloads
EngineInit(payloads) ==
    /\ cost_data \in payloads
    /\ exact_mean \in (IF MeanMayRound(cost_data) THEN BOOLEAN ELSE {TRUE})
    /\ now = FirstDay
    /\ pc = "idle"
    /\ sensitivity = "medium"
    /\ time_horizon = 0
    /\ iso_scores = <<>>
    /\ invoked = {}
    /\ candidates = <<>>
    /\ merged = <<>>
    /\ result = <<>>
    /\ failed = {}
    /\ self = Constructed
    /\ calls = NoCalls

InitOn(payloads) ==
    /\ EngineInit(payloads)
    /\ daily_costs = <<>>
    /\ cost_trend = "none"
    /\ LimiterConstructed(DefaultLimits)

Init == InitOn(Payloads)

\* the cost values a forest fitted on the payload would score
ScoredCosts(cd) == IF ExtractionRaises(cd) THEN {} ELSE Values(CostValues(cd))

MaxScored == 3

\* the costs of `costs` below its k-th smallest or above its m-th largest score low
ExtremeScoring(costs, k, m) ==
    [c \in costs |-> IF \/ Cardinality({d \in costs : d < c}) < k
                        \/ Cardinality({d \in costs : d > c}) < m
                     THEN -9 ELSE -3]

\* the score functions a fitted forest may have: any, on up to MaxScored distinct
\* costs; beyond, those that score low the lowest or the highest cost, both or none
IsoScorings(costs) ==
    IF Cardinality(costs) <= MaxScored THEN [costs -> ScoreSet]
    ELSE {ExtremeScoring(costs, k, m) : k \in 0..1, m \in 0..1}

\* a call of detect_anomalies in which the methods of `failing` raise
DetectStep(sens, iso, failing) ==
    \E r \in {detect_anomalies(cost_data, sens, iso, now, failing)} :
        /\ sensitivity' = sens
        /\ iso_scores' = IF "isolation_forest" \in r.invoked \ failing THEN iso ELSE <<>>
        /\ invoked' = r.invoked
        /\ candidates' = r.candidates
        /\ merged' = r.merged
        /\ result' = r.result
        /\ failed' = failing
        /\ self' = AttributesAfterCall(self)
        /\ pc' = "detect_anomalies"
        /\ cost_data' = PayloadAfterCall(cost_data)
        /\ UNCHANGED <<now, time_horizon, exact_mean, calls, calculatorVars, limiterVars>>

DetectAnomalies ==
    /\ pc = "idle"
    /\ \E sens \in Sensitivities, iso \in IsoScorings(ScoredCosts(cost_data)) :
          DetectStep(sens, iso, {})

\* time_horizon is any integer of the request; nothing validates it
Horizons == (0 - 1)..MaxHorizon

Predict ==
    /\ pc = "idle"
    /\ \E horizon \in Horizons :
         /\ time_horizon' = horizon
         /\ result' = predict(cost_data, horizon, now)
    /\ pc' = "predict"
    /\ failed' = {}
    /\ self' = AttributesAfterCall(self)
    /\ cost_data' = PayloadAfterCall(cost_data)
    /\ UNCHANGED <<now, sensitivity, iso_scores, invoked, candidates, merged, exact_mean,
                   calls, calculatorVars, limiterVars>>

\* a call of analyze_trends in which the sub-computations of `failing` raise
AnalyzeStep(failing) ==
    /\ result' = analyze_trends(cost_data, exact_mean, failing)
    /\ failed' = failing
    /\ self' = AttributesAfterCall(self)
    /\ pc' = "analyze_trends"
    /\ cost_data' = PayloadAfterCall(cost_data)
    /\ UNCHANGED <<now, sensitivity, time_horizon, iso_scores, invoked, candidates, merged,
                   exact_mean, calls, calculatorVars, limiterVars>>

AnalyzeTrends == pc = "idle" /\ AnalyzeStep({})

\* the caller takes the result; the engine keeps nothing
Return ==
    /\ pc # "idle"
    /\ pc' = "idle"
    /\ sensitivity' = "medium"
    /\ time_horizon' = 0
    /\ iso_scores' = <<>>
    /\ invoked' = {}
    /\ candidates' = <<>>
    /\ merged' = <<>>
    /\ result' = <<>>
    /\ failed' = {}
    /\ UNCHANGED <<cost_data, now, exact_mean, self, calls, calculatorVars, limiterVars>>

\* a day passes between calls
Tick ==
    /\ pc = "idle"
    /\ now < FirstDay + MaxTicks
    /\ now' = now + 1
    /\ UNCHANGED <<cost_data, pc, sensitivity, time_horizon, iso_scores, invoked, candidates,
                   merged, result, exact_mean, failed, self, calls, calculatorVars, limiterVars>>

Next == DetectAnomalies \/ Predict \/ AnalyzeTrends \/ Return \/ Tick

Spec == Init /\ [][Next]_vars

(***************************************************************************)
(* The engine with failing sub-computations: any set of detection methods  *)
(* or of trend computations may raise inside its own try block.            *)
(***************************************************************************)
FaultPayloads ==
    {None, Malformed, Gapped, Payload(<<>>), Payload(ScenarioE), Payload(ScenarioA),
     Payload(Series(8, <<0, 0>>, 0, 0)), Payload(SpikedSeries)}

InitFaults == InitOn(FaultPayloads)

DetectAnomaliesFailing ==
    /\ pc = "idle"
    /\ \E sens \in Sensitivities, iso \in IsoScorings(ScoredCosts(cost_data)),
          failing \in SUBSET Methods :
          DetectStep(sens, iso, failing)

AnalyzeTrendsFailing ==
    /\ pc = "idle"
    /\ \E failing \in SUBSET TrendNames : AnalyzeStep(failing)

NextFaults == DetectAnomaliesFailing \/ AnalyzeTrendsFailing \/ Predict \/ Return

SpecFaults == InitFaults /\ [][NextFaults]_vars

(***************************************************************************)
(* Concurrent callers of the shared MLPredictor and AnalyticsService: each *)
(* request handler fetches its own payload and calls one method.  The      *)
(* methods work on their arguments and locals only, so a call is one step  *)
(* between the steps of the other callers.                                 *)
(***************************************************************************)
ConcurrentPayloads == {None, Gapped, Payload(ScenarioE)}

ConcurrentHorizons == {0, MaxHorizon}

Requests ==
    {[op |-> "analyze_trends", cost_data |-> cd] : cd \in ConcurrentPayloads}
    \cup {[op |-> "predict", cost_data |-> cd, time_horizon |-> h] :
             cd \in ConcurrentPayloads, h \in ConcurrentHorizons}
    \cup UNION {{[op |-> "detect_anomalies", cost_data |-> cd, sensitivity |-> sens,
                  iso |-> iso] : sens \in Sensitivities, iso \in IsoScorings(ScoredCosts(cd))} :
                cd \in ConcurrentPayloads}

\* the value the requested method returns
Perform(req, today) ==
    CASE req.op = "analyze_trends" -> analyze_trends(req.cost_data, TRUE, {})
      [] req.op = "predict" -> predict(req.cost_data, req.time_horizon, today)
      [] req.op = "detect_anomalies" ->
            detect_anomalies(req.cost_data, req.sensitivity, req.iso, today, {}).result

\* mutant: the first result is kept in prediction_cache and served to every later call
ExecuteCached(attrs, req, today) ==
    IF attrs.prediction_cache # <<>>
    THEN [result |-> attrs.prediction_cache[1], self |-> attrs]
    ELSE [result |-> Perform(req, today),
          self |-> [attrs EXCEPT !.prediction_cache = <<Perform(req, today)>>]]

\* a call on the shared instances: its result, and the attributes it leaves
Execute(attrs, req, today) ==
    [result |-> Perform(req, today), self |-> AttributesAfterCall(attrs)]

InitConcurrent == InitOn({None})

\* a request arrives and its handler has fetched the payload
Begin(c) ==
    /\ calls[c].pc = "idle"
    /\ \E req \in Requests :
          calls' = [calls EXCEPT ![c] = [pc |-> "called", request |-> req]]
    /\ UNCHANGED <<cost_data, now, pc, sensitivity, time_horizon, iso_scores, invoked,
                   candidates, merged, result, exact_mean, failed, self, calculatorVars, limiterVars>>

\* the method runs
Run(c) ==
    /\ calls[c].pc = "called"
    /\ \E r \in {Execute(self, calls[c].request, now)} :
          /\ calls' = [calls EXCEPT ![c] = [pc |-> "returned", request |-> calls[c].request,
                                            result |-> r.result]]
          /\ self' = r.self
    /\ UNCHANGED <<cost_data, now, pc, sensitivity, time_horizon, iso_scores, invoked,
                   candidates, merged, result, exact_mean, failed, calculatorVars, limiterVars>>

\* the handler has sent its response
End(c) ==
    /\ calls[c].pc = "returned"
    /\ calls' = [calls EXCEPT ![c] = Idle]
    /\ UNCHANGED <<cost_data, now, pc, sensitivity, time_horizon, iso_scores, invoked,
                   candidates, merged, result, exact_mean, failed, self, calculatorVars, limiterVars>>

NextConcurrent == \E c \in Callers : Begin(c) \/ Run(c) \/ End(c)

SpecConcurrent == InitConcurrent /\ [][NextConcurrent]_vars

(***************************************************************************)
(* The cost analyzer: calculate_costs hands the daily totals it has built  *)
(* to _analyze_cost_trend.                                                 *)
(***************************************************************************)
MaxCostLen == 6

\* below and above the floor of 0.01, and around $1.00 with steps of 10%
CalcCosts == {0, 4, 1000, 1100, 1200}

CalcSeries == UNION {[1..n -> CalcCosts] : n \in 0..MaxCostLen}

InitCalculator ==
    /\ EngineInit({None})
    /\ daily_costs \in CalcSeries
    /\ cost_trend = "none"
    /\ LimiterConstructed(DefaultLimits)

AnalyzeCostTrend ==
    /\ cost_trend = "none"
    /\ \E err \in RoundingErrors : cost_trend' = analyze_cost_trend(daily_costs, err)
    /\ UNCHANGED <<engineVars, daily_costs, limiterVars>>

NextCalculator == AnalyzeCostTrend

SpecCalculator == InitCalculator /\ [][NextCalculator]_vars

(***************************************************************************)
(* The rate limiter under concurrent requests.  is_allowed and get_usage   *)
(* read the clock and work on the lists while holding self.lock, so each   *)
(* call is one step, and the timestamps recorded never decrease.           *)
(***************************************************************************)
MaxPerMinute == 2

MaxPerHour == 3

MaxClock == 7500

\* the instants at which time is looked at, around the ends of both windows
Instants == {0, 1, 119, 120, 121, 7200, 7201}

\* the instants at which a client sends requests of its own accord
Arrivals == [c \in Clients |-> IF c = "c1" THEN Instants ELSE {1}]

\* client c has been denied and has waited exactly retry_after seconds
Retrying(c) ==
    /\ last[c].limit \in {"minute", "hour"}
    /\ clock = last[c].at + last[c].retry_after * TicksPerSecond

InitLimiter ==
    /\ EngineInit({None})
    /\ daily_costs = <<>>
    /\ cost_trend = "none"
    /\ \E m \in 0..MaxPerMinute, h \in 0..MaxPerHour :
          LimiterConstructed([requests_per_minute |-> m, requests_per_hour |-> h])

\* a request of client c passes through is_allowed
IsAllowed(c) ==
    /\ clock \in Arrivals[c] \/ Retrying(c)
    /\ \E r \in {Decide(clean_old_requests(minute_requests[c], clock, MinuteWindow),
                        clean_old_requests(hour_requests[c], clock, HourWindow),
                        limits, clock)} :
          /\ minute_requests' = [minute_requests EXCEPT ![c] =
                IF r.allowed
                THEN Append(clean_old_requests(minute_requests[c], clock, MinuteWindow), clock)
                ELSE clean_old_requests(minute_requests[c], clock, MinuteWindow)]
          /\ hour_requests' = [hour_requests EXCEPT ![c] =
                IF r.allowed
                THEN Append(clean_old_requests(hour_requests[c], clock, HourWindow), clock)
                ELSE clean_old_requests(hour_requests[c], clock, HourWindow)]
          /\ granted' = [granted EXCEPT ![c] = IF r.allowed THEN Append(@, clock) ELSE @]
          /\ last' = [last EXCEPT ![c] = r]
          /\ previous' = [previous EXCEPT ![c] = last[c]]
    /\ UNCHANGED <<engineVars, calculatorVars, clock, limits>>

\* get_usage cleans the lists of client c
GetUsage(c) ==
    /\ minute_requests' = [minute_requests EXCEPT ![c] =
          clean_old_requests(@, clock, MinuteWindow)]
    /\ hour_requests' = [hour_requests EXCEPT ![c] = clean_old_requests(@, clock, HourWindow)]
    /\ UNCHANGED <<engineVars, calculatorVars, clock, limits, granted, last, previous>>

\* time passes until a later instant
Advance ==
    /\ \E t \in Instants : t > clock /\ clock' = t
    /\ UNCHANGED <<engineVars, calculatorVars, limits, minute_requests, hour_requests,
                   granted, last, previous>>

\* time passes until retry_after seconds after the denial of client c's last request
WaitRetry(c) ==
    /\ last[c].limit \in {"minute", "hour"}
    /\ last[c].at + last[c].retry_after * TicksPerSecond > clock
    /\ last[c].at + last[c].retry_after * TicksPerSecond <= MaxClock
    /\ clock' = last[c].at + last[c].retry_after * TicksPerSecond
    /\ UNCHANGED <<engineVars, calculatorVars, limits, minute_requests, hour_requests,
                   granted, last, previous>>

NextLimiter ==
    \/ \E c \in Clients : IsAllowed(c)
    \/ \E c \in Clients : GetUsage(c)
    \/ Advance
    \/ \E c \in Clients : WaitRetry(c)

SpecLimiter == InitLimiter /\ [][NextLimiter]_vars

(***************************************************************************)
(* Properties.                                                             *)
(***************************************************************************)
WellFormed == ~ExtractionRaises(cost_data)

\* a call of detect_anomalies on a well-formed payload has returned
Detected == pc = "detect_anomalies" /\ WellFormed

\* a call of predict has returned
Predicted == pc = "predict"

HasDate(r) == "date" \in DOMAIN r

\* the ranks the specification gives the severities
SeverityRank(severity) ==
    CASE severity = "critical" -> 4
      [] severity = "high" -> 3
      [] severity = "medium" -> 2
      [] severity = "low" -> 1
      [] OTHER -> 0

\* a stands before b: higher rank, or the same rank and a later calendar date
Precedes(a, b) ==
    \/ SeverityRank(a.severity) > SeverityRank(b.severity)
    \/ /\ SeverityRank(a.severity) = SeverityRank(b.severity)
       /\ Strptime(a.date) > Strptime(b.date)

OrderedDesc(s) == \A i, j \in 1..Len(s) : i < j => Precedes(s[i], s[j])

PerDate(s) == Cardinality({k \in 1..Len(s) : HasDate(s[k])})

\* every cost of the series is zero
ZeroSeries(s) == \A i \in 1..Len(s) : s[i] = 0

OneInfoRecord(s) == Len(s) = 1 /\ s[1].severity = "info" /\ ~HasDate(s[1])

\* C1: detect_anomalies returns at most 10 records; the per-date anomalies it returns
\* are ordered by severity rank descending and, within a rank, by date descending; and
\* when more than 10 dates are flagged the result is the first 10 of that ordering of
\* all the flagged dates.
C1_TopTenOrdered ==
    Detected =>
        /\ Len(result) <= 10
        /\ OrderedDesc(merged)
        /\ (\A k \in 1..Len(result) : HasDate(result[k])) => OrderedDesc(result)
        /\ Len(merged) > 10 => result = SubSeq(merged, 1, 10)
        /\ (merged # <<>> /\ Len(merged) <= 10) => result = merged

\* more than 10 dates are flagged and the result holds two severities
C1_Witness ==
    /\ Detected
    /\ Len(merged) > 10
    /\ Len(result) = 10
    /\ result[1].severity # result[10].severity
    /\ result[9].severity = result[10].severity

\* C2: the merged list holds at most one record per date; the record kept for a date
\* is one of its candidates and ranks at least as high as every candidate of that
\* date; every date some method flagged is in the merged list.
C2_MergeKeepsHighest ==
    Detected =>
        /\ \A i, j \in 1..Len(merged) : i # j => merged[i].date # merged[j].date
        /\ \A m \in 1..Len(merged) : \E c \in 1..Len(candidates) : merged[m] = candidates[c]
        /\ \A c \in 1..Len(candidates) : \E m \in 1..Len(merged) :
              /\ merged[m].date = candidates[c].date
              /\ SeverityRank(merged[m].severity) >= SeverityRank(candidates[c].severity)

\* a date has a candidate that outranks an earlier candidate of the same date
C2_Witness ==
    /\ Detected
    /\ \E i, j \in 1..Len(candidates) :
          /\ i < j
          /\ candidates[i].date = candidates[j].date
          /\ SeverityRank(candidates[j].severity) > SeverityRank(candidates[i].severity)

\* C3: on a series of fewer than 7 samples detect_anomalies returns exactly one
\* informational record, no per-date anomaly, and runs none of the three methods.
C3_ShortSeriesInfo ==
    (Detected /\ Len(CostValues(cost_data)) < 7) =>
        /\ OneInfoRecord(result)
        /\ invoked = {}
        /\ candidates = <<>>

\* a series of 6 samples that are not all equal, at sensitivity high
C3_Witness ==
    /\ Detected
    /\ Len(CostValues(cost_data)) = 6
    /\ Cardinality(Values(CostValues(cost_data))) > 1
    /\ sensitivity = "high"

\* C4: on a series whose costs are all zero, of any length, and when no cost data is
\* supplied, detect_anomalies returns exactly one record, of severity info, and runs
\* none of the three methods.
C4_AllZeroInfo ==
    (Detected /\ ZeroSeries(CostValues(cost_data))) =>
        /\ OneInfoRecord(result)
        /\ invoked = {}
        /\ candidates = <<>>

\* an all-zero series of at least 7 samples was supplied
C4_Witness ==
    /\ Detected
    /\ HasAnalysis(cost_data)
    /\ Len(CostValues(cost_data)) >= 7
    /\ ZeroSeries(CostValues(cost_data))

\* C5: detect_anomalies never returns an empty list; on a series of at least 7 samples
\* that is not all zero and for which no method produces a candidate, and so on every
\* constant non-zero series of at least 7 samples, the result is exactly one
\* informational 'no significant anomalies' record.
C5_NeverEmpty ==
    pc = "detect_anomalies" =>
        /\ Len(result) >= 1
        /\ (/\ WellFormed
            /\ Len(CostValues(cost_data)) >= 7
            /\ ~ZeroSeries(CostValues(cost_data))
            /\ \/ candidates = <<>>
               \/ Cardinality(Values(CostValues(cost_data))) = 1)
           => /\ OneInfoRecord(result)
              /\ result[1].type = "no_significant_anomalies"

\* ten days at $100, at sensitivity high
C5_Witness ==
    /\ Detected
    /\ CostValues(cost_data) = ScenarioA
    /\ sensitivity = "high"
    /\ invoked = {"z_score", "moving_average"}

MoreSensitive(sens) == IF sens = "low" THEN "medium" ELSE "high"

DatesBy(anomalies, method) ==
    {anomalies[k].date : k \in {i \in 1..Len(anomalies) : anomalies[i].method = method}}

\* the last call flagged no more than the call `higher` at the next sensitivity
NoMoreThan(higher) ==
    /\ \A method \in Methods : DatesBy(candidates, method) \subseteq DatesBy(higher.candidates, method)
    /\ PerDate(result) <= PerDate(higher.result)
    /\ Len(Head10(merged)) <= Len(Head10(higher.merged))
    /\ Len(result) <= Len(higher.result)

\* C6: raising the sensitivity from low to medium or from medium to high on a fixed
\* series never removes a date from what a method flags and never shortens the
\* returned list of per-date anomalies.
C6_SensitivityMonotone ==
    (Detected /\ sensitivity \in {"low", "medium"}) =>
        NoMoreThan(detect_anomalies(cost_data, MoreSensitive(sensitivity), iso_scores, now,
                                    failed))

StrictlyFewerThan(higher) == PerDate(result) < PerDate(higher.result)

\* a series on which each of the three methods flags something at medium and on which
\* high returns strictly more per-date anomalies
C6_Witness ==
    /\ Detected
    /\ sensitivity = "medium"
    /\ \A method \in Methods : DatesBy(candidates, method) # {}
    /\ StrictlyFewerThan(detect_anomalies(cost_data, "high", iso_scores, now, failed))

LastDate(cd) == cd.analysis.daily_costs[Len(cd.analysis.daily_costs)].date

\* C7: on 29 days at $100 followed by one day at $5000, at sensitivity medium, the
\* z-score method flags the last date critical or high, and that record is the first
\* element of the result whatever the other two methods flag.
C7_SpikeFirst ==
    (Detected /\ CostValues(cost_data) = ScenarioB /\ sensitivity = "medium") =>
        /\ \E c \in 1..Len(candidates) :
              /\ candidates[c].method = "z_score"
              /\ candidates[c].date = LastDate(cost_data)
              /\ candidates[c].severity \in {"critical", "high"}
        /\ HasDate(result[1])
        /\ result[1].date = LastDate(cost_data)
        /\ result[1].method = "z_score"
        /\ result[1].severity \in {"critical", "high"}

\* the density method flags the last date too, and the moving average another date
C7_Witness ==
    /\ Detected
    /\ CostValues(cost_data) = ScenarioB
    /\ sensitivity = "medium"
    /\ LastDate(cost_data) \in DatesBy(candidates, "isolation_forest")
    /\ DatesBy(candidates, "moving_average") # {}

MiddleDate(cd) == cd.analysis.daily_costs[2].date

\* C8 as stated: on the 3-day series $10, $500, $10 at sensitivity high the result
\* holds a per-date anomaly for the middle day.
C8_MiddleDayFlagged ==
    (Detected /\ CostValues(cost_data) = ScenarioE /\ sensitivity = "high") =>
        \E k \in 1..Len(result) : HasDate(result[k]) /\ result[k].date = MiddleDate(cost_data)

\* C8, amended: on the 3-day series $10, $500, $10 at sensitivity high the result is
\* the single informational insufficient-data record; no method runs and no day is
\* flagged.
C8_ThreeDaysInsufficient ==
    (Detected /\ CostValues(cost_data) = ScenarioE /\ sensitivity = "high") =>
        /\ OneInfoRecord(result)
        /\ result[1].type = "insufficient_data"
        /\ invoked = {}

C8_Witness ==
    /\ Detected
    /\ CostValues(cost_data) = ScenarioE
    /\ sensitivity = "high"
    /\ Len(result) = 1

\* C9 as stated: for every series of non-negative costs and every horizon, every
\* predicted_cost of the forecast and its total_predicted_cost are >= 0, on every path.
C9_ForecastNonNegative ==
    Predicted =>
        /\ \A i \in 1..Len(result.predictions) : result.predictions[i].predicted_cost >= 0
        /\ result.total_predicted_cost >= 0

\* a series of fewer than 3 samples with a positive mean was forecast over a negative
\* horizon: no prediction, and a total of mean * horizon < 0
C9_Witness ==
    /\ Predicted
    /\ WellFormed
    /\ Len(CostValues(cost_data)) \in 1..2
    /\ Sum(CostValues(cost_data)) > 0
    /\ time_horizon < 0
    /\ result.model_type = "simple_average"
    /\ result.predictions = <<>>
    /\ result.total_predicted_cost < 0

\* C10: a forecast for horizon h >= 0 holds exactly h predictions whose day fields are
\* 1..h in order, on every path; for the empty series and h = 5 each predicted_cost is 0
\* and model_type is constant_zero or simple_average.
C10_OnePredictionPerDay ==
    (Predicted /\ time_horizon >= 0) =>
        /\ Len(result.predictions) = time_horizon
        /\ \A i \in 1..Len(result.predictions) : result.predictions[i].day = i
        /\ (WellFormed /\ CostValues(cost_data) = <<>> /\ time_horizon = 5) =>
              /\ \A i \in 1..5 : result.predictions[i].predicted_cost = 0
              /\ result.model_type \in {"constant_zero", "simple_average"}

\* the empty series was forecast 5 days ahead
C10_Witness ==
    /\ Predicted
    /\ WellFormed
    /\ HasAnalysis(cost_data)
    /\ CostValues(cost_data) = <<>>
    /\ time_horizon = 5
    /\ Len(result.predictions) = 5

\* every prediction of forecast f costs `cents` and carries confidence `conf`
ConstantForecast(f, cents, conf) ==
    \A i \in 1..Len(f.predictions) :
        /\ f.predictions[i].predicted_cost = cents
        /\ f.predictions[i].confidence = conf

\* cents * n = 1000 * sum: cents is the mean of the series (0 when it is empty)
IsMeanInCents(cents, s) ==
    IF s = <<>> THEN cents = 0 ELSE cents * Len(s) = 1000 * Sum(s)

ZeroForecast(f) ==
    /\ ConstantForecast(f, 0, 95)
    /\ f.confidence = 95
    /\ f.model_type = "constant_zero"
    /\ f.trend = "stable"

\* C12 as stated: for every series whose costs are all zero the forecast is 0 on every
\* offset day, with confidence 0.95, model_type constant_zero and trend stable.
C12_AllZeroForecast ==
    (Predicted /\ WellFormed /\ ZeroSeries(CostValues(cost_data))) => ZeroForecast(result)

\* C12, amended: for every all-zero series of at least 3 samples (the 30 zeros that
\* stand in for a missing payload included) the forecast is 0 on every offset day,
\* with confidence 0.95, model_type constant_zero and trend stable; an all-zero series
\* of fewer than 3 samples gets the simple_average forecast of 0 with confidence 0.6.
C12_ZeroForecastFromThree ==
    (Predicted /\ WellFormed /\ ZeroSeries(CostValues(cost_data))) =>
        /\ Len(result.predictions) = Max(time_horizon, 0)
        /\ IF Len(CostValues(cost_data)) >= 3
           THEN ZeroForecast(result)
           ELSE /\ ConstantForecast(result, 0, 60)
                /\ result.confidence = 60
                /\ result.model_type = "simple_average"

\* an all-zero series of at least 3 samples was supplied and forecast over some days
C12_Witness ==
    /\ Predicted
    /\ WellFormed
    /\ HasAnalysis(cost_data)
    /\ Len(CostValues(cost_data)) >= 3
    /\ ZeroSeries(CostValues(cost_data))
    /\ time_horizon >= 1
    /\ result.model_type = "constant_zero"

\* the extraction of predict fails
PredictFails == ExtractionRaises(cost_data)

\* the linear fit is reached and model.predict fails in it
LinearFitFails ==
    /\ WellFormed
    /\ Len(CostValues(cost_data)) >= 3
    /\ ~ZeroSeries(CostValues(cost_data))
    /\ time_horizon <= 0

\* C13 as stated: whenever a failure occurs while a cost forecast is produced, in
\* predict or in the linear fit, the result is the simple_average forecast with
\* confidence 0.6, a trend among increasing, decreasing and stable, and one prediction
\* per offset day.
C13_FailureGivesSimpleForecast ==
    (Predicted /\ (PredictFails \/ LinearFitFails)) =>
        /\ result.model_type = "simple_average"
        /\ result.confidence = 60
        /\ result.trend \in {"increasing", "decreasing", "stable"}
        /\ Len(result.predictions) = Max(time_horizon, 0)
        /\ \A i \in 1..Len(result.predictions) : result.predictions[i].confidence = 60

\* the extraction of predict failed and the forecast returned is the fallback of
\* predict: model_type fallback, confidence 0.5, trend unknown
C13_Witness ==
    /\ Predicted
    /\ PredictFails
    /\ time_horizon >= 1
    /\ result.model_type = "fallback"
    /\ result.confidence = 50
    /\ result.trend = "unknown"

\* the value has the shape the operation's result has
Structured(op, value) ==
    CASE op = "detect_anomalies" ->
            /\ Len(value) >= 1
            /\ \A k \in 1..Len(value) : {"type", "severity"} \subseteq DOMAIN value[k]
      [] op = "predict" ->
            /\ {"predictions", "total_predicted_cost", "confidence", "model_type", "trend"}
                  \subseteq DOMAIN value
            /\ \A i \in 1..Len(value.predictions) :
                  {"day", "predicted_cost", "confidence"} \subseteq DOMAIN value.predictions[i]
      [] op = "analyze_trends" ->
            /\ {"overall_trend", "growth_rate", "period_comparison", "data_source"}
                  \subseteq DOMAIN value
            /\ {"direction", "strength", "confidence"} \subseteq DOMAIN value.overall_trend
      [] OTHER -> FALSE

\* the records of anomalies that carry the method's name
RecordsBy(anomalies, method) == SelectSeq(anomalies, LAMBDA a : a.method = method)

\* what the method returns on the payload when it does not raise
MethodAlone(method) ==
    CASE method = "z_score" ->
            detect_statistical_anomalies(CostValues(cost_data), Dates(cost_data, now),
                                         sensitivity)
      [] method = "isolation_forest" ->
            IF Cardinality(Values(CostValues(cost_data))) > 1
            THEN detect_ml_anomalies(CostValues(cost_data), Dates(cost_data, now),
                                     sensitivity, iso_scores)
            ELSE <<>>
      [] method = "moving_average" ->
            detect_trend_anomalies(CostValues(cost_data), Dates(cost_data, now), sensitivity)

\* the three methods ran in the last call
MethodsRan == Detected /\ "z_score" \in invoked

\* C14: whatever the cost input (absent, empty, short, all-zero, gapped, malformed),
\* the sensitivity, the horizon and the sub-computations that fail, each of
\* analyze_trends, detect_anomalies and predict returns a value of its result shape (an
\* exception is turned into a result by a handler); a detection method that fails contributes no candidate and every
\* other method contributes exactly the candidates it produces alone.
C14_AlwaysStructured ==
    /\ pc # "idle" => Structured(pc, result)
    /\ MethodsRan =>
          \A method \in Methods :
              RecordsBy(candidates, method)
                 = IF method \in failed THEN <<>> ELSE MethodAlone(method)

\* the z-score method failed on a series it would have flagged, and the candidates of
\* the two other methods were returned
C14_Witness ==
    /\ MethodsRan
    /\ failed = {"z_score"}
    /\ MethodAlone("z_score") # <<>>
    /\ RecordsBy(candidates, "isolation_forest") # <<>>
    /\ RecordsBy(candidates, "moving_average") # <<>>
    /\ \A k \in 1..Len(result) : HasDate(result[k])

\* a call of analyze_trends on a supplied, well-formed payload has returned
Analyzed == pc = "analyze_trends" /\ HasAnalysis(cost_data) /\ WellFormed

\* C15: for a series of fewer than 2 samples the overall trend is direction stable,
\* strength 0, confidence low.
C15_TooShortForTrend ==
    (Analyzed /\ Len(CostValues(cost_data)) < 2) =>
        /\ result.overall_trend.direction = "stable"
        /\ result.overall_trend.strength = 0
        /\ result.overall_trend.confidence = "low"
        /\ DOMAIN result.overall_trend = {"direction", "strength", "confidence"}

\* a single day of non-zero cost was analysed
C15_Witness ==
    /\ Analyzed
    /\ Len(CostValues(cost_data)) = 1
    /\ CostValues(cost_data)[1] > 0
    /\ result.data_points = 1

\* every day of the series has the same cost
EqualCosts(s) == \A i, j \in 1..Len(s) : s[i] = s[j]

\* C16 as stated: for every series in which every day has the same cost the trend
\* analyzer returns direction stable and confidence high.
C16_EqualCostsStableHigh ==
    (Analyzed /\ EqualCosts(CostValues(cost_data))) =>
        /\ result.overall_trend.direction = "stable"
        /\ result.overall_trend.confidence = "high"

\* three to fourteen days of one cost whose float mean carries a rounding error were
\* analysed: np.std(y) == 0 fails, the line is fitted and confidence is medium
C16_Witness ==
    /\ Analyzed
    /\ EqualCosts(CostValues(cost_data))
    /\ Len(CostValues(cost_data)) \in 3..14
    /\ ~exact_mean
    /\ result.overall_trend.direction = "stable"
    /\ result.overall_trend.confidence = "medium"

\* the days the clock of the model shows
Clock == FirstDay..(FirstDay + MaxTicks)

\* the value the call that has returned would return on day d, everything else equal
ResultOn(d) ==
    CASE pc = "predict" -> predict(cost_data, time_horizon, d)
      [] pc = "detect_anomalies" ->
            detect_anomalies(cost_data, sensitivity, iso_scores, d, failed).result
      [] pc = "analyze_trends" -> analyze_trends(cost_data, exact_mean, failed)

IsLinearRising(cv) ==
    /\ Len(cv) >= 3
    /\ cv[2] > cv[1]
    /\ \A i \in 2..Len(cv) : cv[i] - cv[i - 1] = cv[2] - cv[1]

\* a + b*(n - 1 + k) in cents, for the linear series cv
LinearValueCents(cv, k) == 1000 * (cv[1] + (cv[2] - cv[1]) * (Len(cv) - 1 + k))

CovXY(cv) ==
    Len(cv) * SumFromTo([i \in 1..Len(cv) |-> (i - 1) * cv[i]], 1, Len(cv))
        - SumFromTo([i \in 1..Len(cv) |-> i - 1], 1, Len(cv)) * SumFromTo(cv, 1, Len(cv))

VarX(n) ==
    n * SumFromTo([i \in 1..n |-> (i - 1) * (i - 1)], 1, n)
        - SumFromTo([i \in 1..n |-> i - 1], 1, n) * SumFromTo([i \in 1..n |-> i - 1], 1, n)

\* the class of the slope against 0.01 dollars a day, that is 1/1000 of a cost unit
SlopeClass(cv) ==
    IF 1000 * CovXY(cv) > VarX(Len(cv)) THEN "increasing"
    ELSE IF 1000 * CovXY(cv) < 0 - VarX(Len(cv)) THEN "decreasing"
    ELSE "stable"

\* C21: for every series of two or more samples whose costs are not all equal the
\* overall direction is the class of the least-squares slope (above 0.01 increasing,
\* below -0.01 decreasing, else stable), and confidence is high exactly when n > 14
\* and medium otherwise.
C21_DirectionBySlope ==
    (Analyzed /\ Len(CostValues(cost_data)) >= 2 /\ ~EqualCosts(CostValues(cost_data))) =>
        /\ result.overall_trend.direction = SlopeClass(CostValues(cost_data))
        /\ result.overall_trend.confidence
               = IF Len(CostValues(cost_data)) > 14 THEN "high" ELSE "medium"

\* fourteen samples falling from a first-day spike: decreasing with confidence medium
C21_Witness ==
    /\ Analyzed
    /\ Len(CostValues(cost_data)) = 14
    /\ ~EqualCosts(CostValues(cost_data))
    /\ result.overall_trend.direction = "decreasing"
    /\ result.overall_trend.confidence = "medium"

\* the direction the trend analyzer reports for the series of the payload
AnalyzerDirection ==
    calculate_overall_trend_from_data(CostValues(cost_data), exact_mean, {}).direction

\* C22 as stated: for every series the trend of the forecast equals the direction the
\* trend analyzer reports for the same series.
C22_ForecastTrendIsDirection ==
    (Predicted /\ WellFormed /\ HasAnalysis(cost_data)) => result.trend = AnalyzerDirection

\* C22 amended: for every series of three or more samples and every forecast of one or
\* more days, the trend of the forecast equals the direction the trend analyzer
\* reports for the same series.
C22_ForecastTrendIsDirectionFromThree ==
    (Predicted /\ WellFormed /\ HasAnalysis(cost_data) /\ Len(CostValues(cost_data)) >= 3
        /\ time_horizon >= 1) => result.trend = AnalyzerDirection

\* a fitted forecast of a falling series: both report decreasing
C22_Witness ==
    /\ Predicted
    /\ WellFormed
    /\ HasAnalysis(cost_data)
    /\ Len(CostValues(cost_data)) >= 3
    /\ time_horizon >= 1
    /\ result.model_type = "linear_regression"
    /\ result.trend = "decreasing"
    /\ AnalyzerDirection = "decreasing"

\* sum of the first k samples, and of the last k samples
FirstSum(cv, k) == SumFromTo(cv, 1, k)

LastSum(cv, k) == SumFromTo(cv, Len(cv) - k + 1, Len(cv))

\* (later - earlier) / earlier * 100 for the means earlier = S1/n1 and later = S2/n2,
\* rounded to two decimals, in hundredths of a percent
ChangePercent(S1, n1, S2, n2) == Round(100 * (S2 * n1 - S1 * n2), S1 * n2, 2)

\* C23: the growth rate is 0 (weekly and monthly) for fewer than 7 samples and when the
\* mean of the first 7 samples is 0; the period comparison is insufficient_data for
\* fewer than 4 samples and reports change 0, trend stable, when the mean of the
\* samples before index n div 2 is 0; otherwise the change is
\* (later mean - earlier mean) / earlier mean * 100.
C23_MeanComparisonsDegrade ==
    Analyzed =>
        LET cv == CostValues(cost_data)
            n == Len(cv)
            mid == n \div 2
            growth == result.growth_rate
            halves == result.period_comparison
        IN  /\ (n < 7 \/ (n >= 7 /\ FirstSum(cv, 7) = 0)) =>
                  growth = [weekly_growth_rate |-> 0, monthly_projected |-> 0]
            /\ (n >= 7 /\ FirstSum(cv, 7) > 0) =>
                  growth.weekly_growth_rate = ChangePercent(FirstSum(cv, 7), 7, LastSum(cv, 7), 7)
            /\ n < 4 => halves = [comparison |-> "insufficient_data"]
            /\ (n >= 4 /\ FirstSum(cv, mid) = 0) =>
                  halves.change_percentage = 0 /\ halves.trend = "stable"
            /\ (n >= 4 /\ FirstSum(cv, mid) > 0) =>
                  halves.change_percentage
                      = ChangePercent(FirstSum(cv, mid), mid, LastSum(cv, n - mid), n - mid)

\* a first half and a first week at cost 0 followed by a spike: no growth, change 0
C23_Witness ==
    /\ Analyzed
    /\ Len(CostValues(cost_data)) >= 14
    /\ FirstSum(CostValues(cost_data), Len(CostValues(cost_data)) \div 2) = 0
    /\ Sum(CostValues(cost_data)) > 0
    /\ result.growth_rate = [weekly_growth_rate |-> 0, monthly_projected |-> 0]
    /\ result.period_comparison.change_percentage = 0
    /\ result.period_comparison.trend = "stable"
    /\ result.period_comparison.second_half_average > 0

\* the sum of the predicted_cost values of the predictions returned
SumOfPredictions(forecast) ==
    SumFromTo([k \in 1..Len(forecast.predictions) |-> forecast.predictions[k].predicted_cost],
              1, Len(forecast.predictions))

\* C24 as stated: in every forecast result total_predicted_cost equals the sum of the
\* predicted_cost values of the predictions returned, on every estimation path.
C24_TotalIsSumOfPredictions ==
    Predicted => result.total_predicted_cost = SumOfPredictions(result)

\* two days forecast from $0, $0, $5000 by the fitted line: $6666.67 and $9166.67 are
\* returned, and a total of $15833.33
C24_Witness ==
    /\ Predicted
    /\ cost_data = Payload(<<0, 0, 500>>)
    /\ time_horizon = 2
    /\ result.model_type = "linear_regression"
    /\ result.predictions[1].predicted_cost = 666667
    /\ result.predictions[2].predicted_cost = 916667
    /\ result.total_predicted_cost = 1583333

\* C25: _analyze_cost_trend returns stable for every constant series and for every
\* series of fewer than 2 samples, increasing whenever the mean of the last 3 samples
\* exceeds the mean of the first 3 by more than 10% of the latter (floored at 0.01),
\* and decreasing whenever it is lower by more than 10%.
C25_CostTrendByChange ==
    cost_trend # "none" =>
        LET n == Len(daily_costs)
            m == IF n < 3 THEN n ELSE 3
            first3 == SumFromTo(daily_costs, 1, m)
            last3 == SumFromTo(daily_costs, n - m + 1, n)
            floored == IF first3 < 10 * m THEN 10 * m ELSE first3
        IN  /\ (n < 2 \/ EqualCosts(daily_costs)) => cost_trend = "stable"
            /\ (n >= 2 /\ 10 * (last3 - first3) > floored) => cost_trend = "increasing"
            /\ (n >= 2 /\ 10 * (first3 - last3) > floored) => cost_trend = "decreasing"

\* three days at $1.00, then $1.10, $1.10 and $1.20: a mean 13% above the first
C25_Witness ==
    /\ daily_costs = <<1000, 1000, 1000, 1100, 1100, 1200>>
    /\ cost_trend = "increasing"

\* the number of entries of log in the window of w seconds that ends at t and leaves
\* out the instant w seconds before t
GrantsWithin(log, t, w) ==
    Cardinality({j \in 1..Len(log) : log[j] > t - w * TicksPerSecond /\ log[j] <= t})

IsSuffix(s, log) ==
    Len(s) <= Len(log) /\ s = SubSeq(log, Len(log) - Len(s) + 1, Len(log))

\* the grants of client c before its last request
GrantsBefore(c) ==
    IF last[c].allowed THEN SubSeq(granted[c], 1, Len(granted[c]) - 1) ELSE granted[c]

\* C26: for every client the requests granted within any window of 60 seconds never
\* exceed requests_per_minute, and within any window of 3600 seconds never
\* requests_per_hour; only granted requests are recorded in the lists; and the answer
\* to a client depends on nothing but the grants made to that client before.
C26_QuotaNeverExceeded ==
    \A c \in Clients :
        /\ \A i \in 1..Len(granted[c]) :
              /\ GrantsWithin(granted[c], granted[c][i], 60) <= limits.requests_per_minute
              /\ GrantsWithin(granted[c], granted[c][i], 3600) <= limits.requests_per_hour
        /\ IsSuffix(minute_requests[c], granted[c])
        /\ IsSuffix(hour_requests[c], granted[c])
        /\ last[c].limit \in {"none", "minute", "hour"} /\ last[c].at >= 0 =>
              (last[c].allowed <=>
                  /\ GrantsWithin(GrantsBefore(c), last[c].at, 60) < limits.requests_per_minute
                  /\ GrantsWithin(GrantsBefore(c), last[c].at, 3600) < limits.requests_per_hour)

\* at one instant the first client, with its minute quota of two used up, is denied
\* while the second client is granted
C26_Witness ==
    /\ limits.requests_per_minute = 2
    /\ Len(granted["c1"]) = 2
    /\ last["c1"].limit = "minute"
    /\ last["c2"].allowed
    /\ last["c2"].at = last["c1"].at
    /\ Len(minute_requests["c1"]) = 2
    /\ Len(minute_requests["c2"]) = 1

\* C27: a denial carries retry_after >= 1, and a request the same client makes
\* retry_after seconds or more after the denial, with no request of its own in
\* between, passes the minute check after a minute-limit denial and is allowed after
\* an hour-limit denial.
C27_RetryAfterSuffices ==
    \A c \in Clients :
        /\ last[c].limit \in {"minute", "hour"} => last[c].retry_after >= 1
        /\ (/\ previous[c].limit \in {"minute", "hour"}
            /\ last[c].at >= previous[c].at + previous[c].retry_after * TicksPerSecond) =>
              /\ previous[c].limit = "minute" => last[c].limit # "minute"
              /\ previous[c].limit = "hour" => last[c].allowed

\* the first client, denied by the hour limit at an instant between two seconds,
\* asked again exactly retry_after seconds later and was allowed
C27_Witness ==
    /\ previous["c1"].limit = "hour"
    /\ previous["c1"].at % 2 = 1
    /\ last["c1"].at = previous["c1"].at + previous["c1"].retry_after * TicksPerSecond
    /\ last["c1"].allowed
    /\ Len(hour_requests["c1"]) = limits.requests_per_hour

\* the place of a method in the order in which detect_anomalies runs the methods
MethodPlace(method) ==
    CASE method = "z_score" -> 1
      [] method = "isolation_forest" -> 2
      [] method = "moving_average" -> 3

\* the candidates of the date of record a that rank as high as a
TiedWith(a) ==
    {c \in 1..Len(candidates) :
        /\ candidates[c].date = a.date
        /\ SeverityRank(candidates[c].severity) = SeverityRank(a.severity)}

\* C28: the candidates stand in the order z-score, isolation forest, moving average;
\* the record kept for a date is the first of its candidates of the highest rank, so
\* among methods that flag a date with the same rank the one that ran first is kept;
\* and the merged list is a function of the candidate list.
C28_FirstMethodWinsTies ==
    Detected =>
        /\ \A i, j \in 1..Len(candidates) :
              i < j => MethodPlace(candidates[i].method) <= MethodPlace(candidates[j].method)
        /\ \A m \in 1..Len(merged) :
              /\ TiedWith(merged[m]) # {}
              /\ \A c \in TiedWith(merged[m]) :
                    MethodPlace(merged[m].method) <= MethodPlace(candidates[c].method)
              /\ \A c \in 1..Len(candidates) :
                    candidates[c].date = merged[m].date =>
                        SeverityRank(candidates[c].severity) <= SeverityRank(merged[m].severity)
        /\ merged = deduplicate_anomalies(candidates)

\* two methods flagged one date with the same severity, and a third method flagged
\* nothing higher: the record of the earlier method is in the merged list
C28_Witness ==
    /\ Detected
    /\ \E m \in 1..Len(merged) :
          /\ Cardinality(TiedWith(merged[m])) >= 2
          /\ \E c \in TiedWith(merged[m]) :
                MethodPlace(candidates[c].method) > MethodPlace(merged[m].method)

FirstDate(cd) == cd.analysis.daily_costs[1].date

\* the days of the payload that carry the date
DaysOf(cd, date) ==
    {i \in 1..Len(cd.analysis.daily_costs) : cd.analysis.daily_costs[i].date = date}

\* day i of n has w days around it: (w - 1) div 2 after it and the rest before it
FullWindow(i, n, w) == i + ((w - 1) \div 2) <= n /\ i - (w - 1 - ((w - 1) \div 2)) >= 1

\* min(7, n div 2)
CenteredWindow(n) == IF n \div 2 < 7 THEN n \div 2 ELSE 7

\* C29: on a series of 7 or more samples the moving-average method uses a centered
\* window of min(7, n div 2) >= 3 days and flags only days with a full window, so
\* it never flags the first or the last date; a per-date anomaly of the last date
\* comes from the z-score or the isolation-forest method.
C29_MovingAverageSkipsEnds ==
    (Detected /\ WellFormed /\ HasAnalysis(cost_data) /\ Len(CostValues(cost_data)) >= 7) =>
        /\ CenteredWindow(Len(CostValues(cost_data))) >= 3
        /\ \A date \in DatesBy(candidates, "moving_average") :
              \A i \in DaysOf(cost_data, date) :
                  FullWindow(i, Len(CostValues(cost_data)),
                             CenteredWindow(Len(CostValues(cost_data))))
        /\ FirstDate(cost_data) \notin DatesBy(candidates, "moving_average")
        /\ LastDate(cost_data) \notin DatesBy(candidates, "moving_average")
        /\ \A k \in 1..Len(result) :
              (HasDate(result[k]) /\ result[k].date = LastDate(cost_data)) =>
                  result[k].method \in {"z_score", "isolation_forest"}

\* a spike on the last day: the moving-average method flags days before it, the
\* z-score method flags the last date, and the result reports it
C29_Witness ==
    /\ Detected
    /\ WellFormed
    /\ HasAnalysis(cost_data)
    /\ Len(CostValues(cost_data)) >= 7
    /\ DatesBy(candidates, "moving_average") # {}
    /\ LastDate(cost_data) \in DatesBy(candidates, "z_score")
    /\ \E k \in 1..Len(result) : HasDate(result[k]) /\ result[k].date = LastDate(cost_data)

\* a per-date anomaly record of one of the severities the methods assign; a critical
\* one comes from the z-score method, for a cost more than 3.5 deviations off the mean
\* of the series cv: (n*c - S)^2 / (n*Q - S^2) > 3.5^2
PerDateRecord(r, cv) ==
    /\ HasDate(r)
    /\ r.severity \in {"medium", "high", "critical"}
    /\ r.severity = "critical" =>
          /\ r.method = "z_score"
          /\ 4 * (Len(cv) * r.actual_cost - SumFromTo(cv, 1, Len(cv)))
               * (Len(cv) * r.actual_cost - SumFromTo(cv, 1, Len(cv)))
                 > 49 * (Len(cv) * SumFromTo([i \in 1..Len(cv) |-> cv[i] * cv[i]], 1, Len(cv))
                           - SumFromTo(cv, 1, Len(cv)) * SumFromTo(cv, 1, Len(cv)))

\* C30: a list returned by detect_anomalies is either exactly one record without a
\* date, of severity info or, after an internal failure, error, or it holds per-date
\* records only; every per-date record, returned or candidate, has severity medium,
\* high or critical, never low, and critical only from the z-score method (z > 3.5).
C30_ResultShape ==
    pc = "detect_anomalies" =>
        /\ \/ /\ Len(result) = 1
              /\ ~HasDate(result[1])
              /\ result[1].severity \in {"info", "error"}
              /\ result[1].severity = "error" <=> ~WellFormed
           \/ /\ Len(result) >= 1
              /\ \A k \in 1..Len(result) : PerDateRecord(result[k], CostValues(cost_data))
        /\ \A c \in 1..Len(candidates) : PerDateRecord(candidates[c], CostValues(cost_data))

\* a result of several per-date records: a critical one from the z-score method and
\* a lower one from another method
C30_Witness ==
    /\ Detected
    /\ Len(result) >= 2
    /\ HasDate(result[1])
    /\ result[1].severity = "critical"
    /\ result[1].method = "z_score"
    /\ \E k \in 2..Len(result) :
          result[k].method # "z_score" /\ result[k].severity \in {"medium", "high"}

====
